---- MODULE Spec2Model ----
(***************************************************************************)
(* Model of the PYUSD LayerZero CLI transfer workflow:                     *)
(*   commands/send.ts  (Send.run)                                          *)
(*   lib/oft.ts        (getTokenAddress, isApprovalRequired, getBalance,   *)
(*                      getAllowance, approve, quoteSend, send,            *)
(*                      checkAndApprove)                                   *)
(*   lib/options.ts    (buildLzReceiveOptions)                             *)
(*   utils/format.ts   (calculateMinAmount), utils/address.ts              *)
(*                                                                         *)
(* Every `await` of the async code is one action: between two awaits the   *)
(* chain (allowance, balance, fee market) is free to move.  Each remote    *)
(* call may succeed or reject; a rejected promise propagates as in the     *)
(* source (caught only where the source has a catch).                      *)
(*                                                                         *)
(* Line numbers: send.ts is src/unnamed/part_004; address.ts and format.ts *)
(* are src/unnamed/part_005 (numbered as in that file); the ABIs are       *)
(* src/unnamed/part_007; the tutorial is src/unnamed/part_008.             *)
(*                                                                         *)
(* Scaling: TLC integers are 32 bit, so uint256 is modelled as an unsigned *)
(* integer of UintBits bits; amounts are small numbers of base units.      *)
(* Slippage percent (a JS float) is carried in thousandths of a percent.   *)
(***************************************************************************)
EXTENDS Integers, Sequences, FiniteSets, TLC

\* ------------------------------------------------------------------ bounds
MaxInvocations == 2
MaxAmount == 1
MaxLogs == 2
UintBits == 3

\* --------------------------------------------------------- program values
\* oft.ts:227  const maxApproval = 2n ** 256n - 1n   (width scaled to UintBits)
maxApproval == 2^UintBits - 1

\* options.ts:16
DEFAULT_GAS_LIMIT == 200000
\* options.ts:13
OPTION_TYPE_LZRECEIVE == 1
\* format.ts:21
PYUSD_DECIMALS == 6

\* a 20-byte address whose bytes are all b
Addr(b) == [i \in 1..20 |-> b]
\* srcConfig.pyusdAddress: the OFT / adapter contract (send.ts:102,114,126,146)
OftAddress == Addr(1)
\* the ERC20 an adapter's token() returns
PyusdToken == Addr(2)
\* send.ts:65  getAddressFromPrivateKey(privateKey)
SenderAddress == Addr(3)
\* send.ts:79  dstConfig.eid (arbitrum)
DstEid == 30110

\* oft.ts:14-24  the OFTSent event definition
OFT_SENT_EVENT ==
  [type |-> "event", name |-> "OFTSent",
   inputs |-> <<"bytes32", "uint32", "address", "uint256", "uint256">>]

\* viem toEventSignature: the textual signature  name(type,...,type)  of an
\* event definition.  It does not hash.
toEventSignature(ev) ==
  IF ev.name = "OFTSent" /\ ev.inputs = <<"bytes32", "uint32", "address", "uint256", "uint256">>
    THEN "OFTSent(bytes32,uint32,address,uint256,uint256)"
    ELSE "Transfer(address,address,uint256)"

\* keccak256 of a textual event signature: what the EVM puts in topics[0].
keccak256(sig) ==
  IF sig = "OFTSent(bytes32,uint32,address,uint256,uint256)"
    THEN "0x85496b760a4b7f8d66384b9df21b381f5d1b1e79f229a47aaf4c232edc2fe59a"
    ELSE "0xddf252ad1be2c89b69c2b068fc378daa952ba7f163c4a11628f55a4df523b3ef"

\* oft.ts:26
OFT_SENT_EVENT_SIGNATURE == toEventSignature(OFT_SENT_EVENT)

\* the topic the chain emits for OFTSent (docs: keccak256 of the signature)
OFTSentTopic == keccak256("OFTSent(bytes32,uint32,address,uint256,uint256)")
TransferTopic == keccak256("Transfer(address,address,uint256)")

\* ------------------------------------------------------------ pure helpers
\* (a * b) / c on bigints, c > 0: the exact product divided with truncation
\* toward zero.  The product is split at c so that it stays within the
\* integers of TLC: |a| = q*c + r gives |a|*|b| \div c = q*|b| + (r*|b|) \div c.
BigIntMulDiv(a, b, c) ==
  LET absA == IF a >= 0 THEN a ELSE -a
      absB == IF b >= 0 THEN b ELSE -b
      quotient == (absA \div c) * absB + ((absA % c) * absB) \div c
  IN  IF (a >= 0) = (b >= 0) THEN quotient ELSE -quotient

\* A slippage percentage is carried in thousandths of a percent
\* (slippageMilli = 1000 * slippagePercent), the JavaScript number being the
\* IEEE-754 double nearest to that decimal.
\*
\* The hundredths h (h <= 1023) for which the double product (h/100) * 100
\* falls just below the integer h ...
ProductBelow ==
  {29, 57, 58, 113, 114, 115, 116, 201, 203, 205, 207, 226, 228, 230,
   232, 251, 253, 255, 402, 406, 410, 414, 427, 431, 435, 439, 452, 456,
   460, 464, 477, 481, 485, 489, 502, 506, 510, 803, 804, 812, 820, 828,
   829, 837, 845, 853, 854, 862, 870, 878, 879, 887, 895, 903, 904, 912,
   920, 928, 929, 937, 945, 953, 954, 962, 970, 978, 979, 987, 995, 1003,
   1004, 1012, 1020}

\* ... and those for which it falls just above h
ProductAbove ==
  {7, 14, 28, 55, 56, 109, 110, 111, 112, 218, 220, 222, 224, 243,
   245, 247, 249, 411, 415, 419, 423, 436, 440, 444, 448, 461, 465, 469,
   473, 486, 490, 494, 498, 511, 805, 813, 821, 822, 830, 838, 846, 847,
   855, 863, 871, 872, 880, 888, 896, 897, 905, 913, 921, 922, 930, 938,
   946, 947, 955, 963, 971, 972, 980, 988, 996, 997, 1005, 1013, 1021, 1022}

\* format.ts:51  Math.floor(slippagePercent * 100), as IEEE-754 doubles compute
\* it, for |slippagePercent| <= 10.23 and for whole percentages (whose
\* product is exact).  A product with a non-zero thousandths digit is never
\* within rounding distance of an integer.
MathFloorTimes100(slippageMilli) ==
  LET magnitude == IF slippageMilli >= 0 THEN slippageMilli ELSE -slippageMilli
      hundredths == magnitude \div 10
      floorOfExact == slippageMilli \div 10
  IN  IF magnitude % 10 # 0 THEN floorOfExact
      ELSE IF slippageMilli >= 0 /\ hundredths \in ProductBelow THEN floorOfExact - 1
      ELSE IF slippageMilli < 0 /\ hundredths \in ProductAbove THEN floorOfExact - 1
      ELSE floorOfExact

\* variant of calculateMinAmount: the deduction is taken from twice the amount
calculateMinAmountOfDouble(amount, slippageMilli) ==
  LET slippageBps == MathFloorTimes100(slippageMilli)
      minAmount == 2 * amount - BigIntMulDiv(amount, slippageBps, 10000)
  IN  minAmount

\* format.ts:50-54
calculateMinAmount(amount, slippageMilli) ==
  LET slippageBps == MathFloorTimes100(slippageMilli)
      minAmount == amount - BigIntMulDiv(amount, slippageBps, 10000)
  IN  minAmount

\* A non-negative number or bigint handed to the byte encoders is carried as
\* its base-256 digits, most significant first and without leading zeros, so
\* that values beyond the 32-bit integers of TLC (2^128) are exact.
RECURSIVE Digits(_)
Digits(n) == IF n = 0 THEN <<>> ELSE Append(Digits(n \div 256), n % 256)

\* send.ts:80  BigInt(flags.gas)
BigInt(n) == Digits(n)

\* a thrown IntegerOutOfRangeError, carried as a value that is no byte string
IntegerOutOfRangeError == <<-1>>

\* variant of toHex: an oversized value is cut to its low `size` bytes
toHexTruncating(value, size) ==
  IF Len(value) > size THEN SubSeq(value, Len(value) - size + 1, Len(value))
  ELSE [i \in 1..(size - Len(value)) |-> 0] \o value

\* viem toHex(value, {size}): the value as `size` big-endian bytes; a value
\* above 2^(8*size) - 1 throws IntegerOutOfRangeError
toHex(value, size) ==
  IF Len(value) > size THEN IntegerOutOfRangeError
  ELSE [i \in 1..(size - Len(value)) |-> 0] \o value

\* viem concat
RECURSIVE concat(_)
concat(parts) == IF parts = <<>> THEN <<>> ELSE Head(parts) \o concat(Tail(parts))

\* variant of buildLzReceiveOptions: the gas limit is encoded in 32 bytes
buildLzReceiveOptionsUint256(gasLimit) ==
  LET gasLimitBytes == toHex(gasLimit, 32)
      optionData == concat(<<toHex(Digits(OPTION_TYPE_LZRECEIVE), 1), gasLimitBytes>>)
  IN  IF gasLimitBytes = IntegerOutOfRangeError THEN IntegerOutOfRangeError
      ELSE concat(<<toHex(Digits(3), 2), toHex(Digits(1), 1), toHex(Digits(17), 2), optionData>>)

\* options.ts:22-48.  The toHex of line 38 throws before anything is
\* concatenated.
buildLzReceiveOptions(gasLimit) ==
  LET workerIdExecutor == 1
      optionTypeLzReceive == OPTION_TYPE_LZRECEIVE
      gasLimitBytes == toHex(gasLimit, 16)
      optionData == concat(<<toHex(Digits(optionTypeLzReceive), 1), gasLimitBytes>>)
      optionsType == toHex(Digits(3), 2)
      workerId == toHex(Digits(workerIdExecutor), 1)
  IN  IF gasLimitBytes = IntegerOutOfRangeError THEN IntegerOutOfRangeError
      ELSE concat(<<optionsType, workerId, toHex(Digits(17), 2), optionData>>)

\* options.ts:53-55
emptyOptions == <<>>

\* address.ts:7-9  pad(address, {size: 32})
\* variant of addressToBytes32: the zero bytes are appended (right padding)
addressToBytes32PadRight(address) == address \o [i \in 1..(32 - Len(address)) |-> 0]

addressToBytes32(address) == [i \in 1..(32 - Len(address)) |-> 0] \o address

\* a thrown SliceOffsetOutOfBoundsError, carried as a value that is no byte string
SliceOffsetOutOfBoundsError == <<-2>>

\* viem slice(value, start, end) on bytes: the bytes start..end-1 (counted
\* from 0); it throws when the value is shorter than the range
slice(value, start, end) ==
  IF start > Len(value) \/ Len(value) < end THEN SliceOffsetOutOfBoundsError
  ELSE SubSeq(value, start + 1, end)

\* address.ts:14-16
bytes32ToAddress(bytes32) == slice(bytes32, 12, 32)

\* send.ts:76-84
BuildSendParam(amountLD, minAmountLD, gas, recipientAddress) ==
  [amountLD |-> amountLD,
   composeMsg |-> <<>>,
   dstEid |-> DstEid,
   extraOptions |-> buildLzReceiveOptions(BigInt(gas)),
   minAmountLD |-> minAmountLD,
   oftCmd |-> <<>>,
   to |-> addressToBytes32(recipientAddress)]

\* variant of ExtractGuid: the topic comparison is dropped and the first log
\* with an indexed topic supplies the guid
RECURSIVE ExtractGuidAnyLog(_)
ExtractGuidAnyLog(logs) ==
  IF logs = <<>> THEN "0x"
  ELSE LET log == Head(logs) IN
       IF Len(log.topics) >= 2 THEN log.topics[2] ELSE ExtractGuidAnyLog(Tail(logs))

\* oft.ts:187-193  scan of receipt.logs for the OFTSent event.
\* topics[0] of a log without topics is undefined and equals nothing;
\* topics[1] of a one-topic log is undefined.
RECURSIVE ExtractGuid(_)
ExtractGuid(logs) ==
  IF logs = <<>> THEN "0x"
  ELSE LET log == Head(logs) IN
       IF Len(log.topics) >= 1 /\ log.topics[1] = OFT_SENT_EVENT_SIGNATURE
         THEN (IF Len(log.topics) >= 2 THEN log.topics[2] ELSE "undefined")
         ELSE ExtractGuid(Tail(logs))

\* variant of AllowanceSufficient: strict comparison
AllowanceStrictlyGreater(currentAllowance, amount) == currentAllowance > amount

\* oft.ts:222  if (currentAllowance >= amount) return {approved: false}
AllowanceSufficient(currentAllowance, amount) == currentAllowance >= amount

\* variant of ApprovalAmount: approve exactly the requested amount
ExactApprovalAmount(amount) == amount

\* oft.ts:226-228  the amount approved for a requested amount: always the
\* maximum, never the amount itself
ApprovalAmount(amount) == maxApproval

\* ------------------------------------------------------------------ state
VARIABLES
  chain,   \* on-chain state: approvalRequired, hasToken, allowance, balance
  mined,   \* transactions of the sender mined so far (all invocations)
  pc,      \* position of Send.run (the await it is suspended at)
  inv,     \* number of invocations of the command started so far
  args,    \* parsed args and flags of the running invocation
  loc,     \* local variables of Send.run / checkAndApprove / quoteSend / send
  trace,   \* remote operations performed by the running invocation, in order
  calls,   \* arguments of the contract calls made by the running invocation
  output,  \* lines logged by the running invocation
  exit,    \* "none", "running", "ok" or "error"
  applied  \* a library function applied on its own: its name, argument and result

vars == <<chain, mined, pc, inv, args, loc, trace, calls, output, exit, applied>>

AmountInputs == 0..MaxAmount
\* --slippage 0.5 (the default, send.ts:43) and --slippage 100
SlippageInputs == {500, 100000}
\* messaging fees the contract may quote; the fee market moves between any
\* two reads
FeeValues == {1, 2}
AllowanceValues == (0..MaxAmount) \cup {maxApproval}

\* logs a mined transfer can carry
LogKinds ==
  { [topics |-> <<>>],
    [topics |-> <<TransferTopic, "0xfrom">>],
    [topics |-> <<OFTSentTopic, "0xguid1">>],
    [topics |-> <<OFTSentTopic, "0xguid2">>] }

RECURSIVE SeqsUpTo(_, _)
SeqsUpTo(S, n) ==
  IF n = 0 THEN {<<>>}
  ELSE LET shorter == SeqsUpTo(S, n - 1)
       IN  shorter \cup {Append(q, x) : q \in shorter, x \in S}

ReceiptLogs == SeqsUpTo(LogKinds, MaxLogs)

NoLocals ==
  [tokenAddress |-> <<>>, balance |-> <<>>, needsApproval |-> <<>>,
   caTokenAddress |-> <<>>, currentAllowance |-> <<>>, approveHash |-> <<>>,
   approvalResult |-> <<>>, messagingFee |-> <<>>, quote |-> <<>>,
   sendHash |-> <<>>, receipt |-> <<>>, result |-> <<>>]

NoCalls == [approve |-> <<>>, quoteSend |-> <<>>, quoteOFT |-> <<>>, send |-> <<>>]

NoArgs == [amountLD |-> 0, dryRun |-> FALSE, sendParam |-> <<>>]

\* no library function is being applied on its own
NotApplied == [fn |-> "none", arg |-> <<>>, result |-> <<>>, done |-> FALSE]

\* a fixed chain for the runs that read no token state
NoChain == [approvalRequired |-> FALSE, hasToken |-> TRUE, allowance |-> 0, balance |-> 0]

\* the command has not been started
Idle ==
  /\ mined = <<>>
  /\ pc = "idle"
  /\ inv = 0
  /\ args = NoArgs
  /\ loc = NoLocals
  /\ trace = <<>>
  /\ calls = NoCalls
  /\ output = <<>>
  /\ exit = "none"

Init ==
  /\ chain \in [approvalRequired : BOOLEAN, hasToken : BOOLEAN,
                allowance : AllowanceValues, balance : 0..MaxAmount]
  /\ Idle
  /\ applied = NotApplied

\* the ERC20 whose balance and allowance count: an adapter's token(), or the
\* OFT contract itself when it has no token() accessor
ActualToken == IF chain.hasToken THEN PyusdToken ELSE OftAddress


Event(op, step, outcome) == [op |-> op, step |-> step, outcome |-> outcome]

\* variant of Throw: the failed operation is logged and attempted again
ThrowAndRetry(op, step) ==
  /\ trace' = Append(trace, Event(op, step, "throw"))
  /\ UNCHANGED <<pc, exit, output>>

\* send.ts:167-173  a rejection inside the try block is caught and reported
\* with this.error, which ends the command
Throw(op, step) ==
  /\ trace' = Append(trace, Event(op, step, "throw"))
  /\ pc' = "failed"
  /\ exit' = "error"
  /\ output' = Append(output, "Transaction failed")

\* send.ts:51-97  parse, build the SendParam, create the clients
Run(amount, slippage, dryRun, privateKey) ==
  /\ pc = "idle"
  /\ inv < MaxInvocations
  /\ inv' = inv + 1
  /\ trace' = <<>>
  /\ calls' = NoCalls
  /\ loc' = NoLocals
  /\ IF ~privateKey
       THEN /\ args' = NoArgs
            /\ pc' = "failed"
            /\ exit' = "error"
            /\ output' = <<"PYUSD_PRIVATE_KEY environment variable is required">>
       ELSE LET amountLD == amount
                minAmountLD == calculateMinAmount(amountLD, slippage)
                recipientAddress == SenderAddress
                sendParam == BuildSendParam(amountLD, minAmountLD, DEFAULT_GAS_LIMIT, recipientAddress)
            IN  /\ args' = [amountLD |-> amountLD, dryRun |-> dryRun, sendParam |-> <<sendParam>>]
                /\ pc' = "step1_getTokenAddress"
                /\ exit' = "running"
                /\ output' = <<"PYUSD Cross-Chain Transfer">>
  /\ UNCHANGED <<chain, mined, applied>>

\* variant of getTokenAddress: no fallback, the token is taken to exist
getTokenAddressNoFallback(ok) == PyusdToken

\* oft.ts:32-43  token() read; a failed read is caught and the OFT address
\* itself is returned
getTokenAddress(ok) == IF ok /\ chain.hasToken THEN PyusdToken ELSE OftAddress

getTokenAddressOutcome(ok) == IF ok /\ chain.hasToken THEN "ok" ELSE "caught"

\* send.ts:101-102
Step1_getTokenAddress ==
  /\ pc = "step1_getTokenAddress"
  /\ \E ok \in BOOLEAN :
       /\ loc' = [loc EXCEPT !.tokenAddress = <<getTokenAddress(ok)>>]
       /\ trace' = Append(trace, Event("token", 1, getTokenAddressOutcome(ok)))
  /\ pc' = "step1_getBalance"
  /\ output' = Append(output, "Step 1/4: Checking balance...")
  /\ UNCHANGED <<chain, mined, inv, applied, args, calls, exit>>

\* variant of InsufficientBalance: the shortfall is reported and the workflow
\* goes on
InsufficientBalanceWarn(balance) ==
  /\ trace' = Append(trace, Event("balanceOf", 1, "ok"))
  /\ loc' = [loc EXCEPT !.balance = <<balance>>]
  /\ pc' = "step2_isApprovalRequired"
  /\ output' = output \o <<"Insufficient balance", "Step 2/4: Checking approval...">>
  /\ UNCHANGED exit

\* send.ts:105-107  this.error inside the try block: caught at 167 and
\* reported again
InsufficientBalance(balance) ==
  /\ trace' = Append(trace, Event("balanceOf", 1, "ok"))
  /\ loc' = [loc EXCEPT !.balance = <<balance>>]
  /\ pc' = "failed"
  /\ exit' = "error"
  /\ output' = output \o <<"Insufficient balance", "Transaction failed">>

\* send.ts:103-110 with oft.ts:59-66
Step1_getBalance ==
  /\ pc = "step1_getBalance"
  /\ \/ /\ Throw("balanceOf", 1)
        /\ UNCHANGED loc
     \/ /\ loc.tokenAddress[1] = ActualToken
        /\ LET balance == chain.balance IN
           IF balance < args.amountLD
             THEN InsufficientBalance(balance)
             ELSE /\ trace' = Append(trace, Event("balanceOf", 1, "ok"))
                  /\ loc' = [loc EXCEPT !.balance = <<balance>>]
                  /\ pc' = "step2_isApprovalRequired"
                  /\ output' = output \o <<"Balance ok", "Step 2/4: Checking approval...">>
                  /\ UNCHANGED exit
  /\ UNCHANGED <<chain, mined, inv, applied, args, calls>>

\* oft.ts:211 / oft.ts:223  return {approved: false}, then send.ts:116-126
NotApproved(op) ==
  /\ trace' = Append(trace, Event(op, 2, "ok"))
  /\ pc' = "step3_quoteSend"
  /\ output' = output \o <<"Sufficient allowance (no approval needed)", "Step 3/4: Getting quote...">>

\* oft.ts:209-212 with oft.ts:48-54
checkAndApprove_isApprovalRequired ==
  /\ pc = "step2_isApprovalRequired"
  /\ \/ /\ Throw("approvalRequired", 2)
        /\ UNCHANGED loc
     \/ LET needsApproval == chain.approvalRequired IN
        /\ UNCHANGED exit
        /\ IF ~needsApproval
             THEN /\ NotApproved("approvalRequired")
                  /\ loc' = [loc EXCEPT !.needsApproval = <<needsApproval>>,
                                        !.approvalResult = <<[approved |-> FALSE, txHash |-> "undefined"]>>]
             ELSE /\ trace' = Append(trace, Event("approvalRequired", 2, "ok"))
                  /\ loc' = [loc EXCEPT !.needsApproval = <<needsApproval>>]
                  /\ pc' = "step2_getTokenAddress"
                  /\ UNCHANGED output
  /\ UNCHANGED <<chain, mined, inv, applied, args, calls>>

\* oft.ts:215
checkAndApprove_getTokenAddress ==
  /\ pc = "step2_getTokenAddress"
  /\ \E ok \in BOOLEAN :
       /\ loc' = [loc EXCEPT !.caTokenAddress = <<getTokenAddress(ok)>>]
       /\ trace' = Append(trace, Event("token", 2, getTokenAddressOutcome(ok)))
  /\ pc' = "step2_getAllowance"
  /\ UNCHANGED <<chain, mined, inv, applied, args, calls, output, exit>>

\* oft.ts:218-224 with oft.ts:71-83
checkAndApprove_getAllowance ==
  /\ pc = "step2_getAllowance"
  /\ \/ /\ Throw("allowance", 2)
        /\ UNCHANGED loc
     \/ /\ loc.caTokenAddress[1] = ActualToken
        /\ UNCHANGED exit
        /\ LET currentAllowance == chain.allowance IN
           IF AllowanceSufficient(currentAllowance, args.amountLD)
             THEN /\ NotApproved("allowance")
                  /\ loc' = [loc EXCEPT !.currentAllowance = <<currentAllowance>>,
                                        !.approvalResult = <<[approved |-> FALSE, txHash |-> "undefined"]>>]
             ELSE /\ trace' = Append(trace, Event("allowance", 2, "ok"))
                  /\ loc' = [loc EXCEPT !.currentAllowance = <<currentAllowance>>]
                  /\ pc' = "step2_approve"
                  /\ UNCHANGED output
  /\ UNCHANGED <<chain, mined, inv, applied, args, calls>>

\* oft.ts:95-102  args of the approve transaction (oft.ts:228 passes maxApproval)
ApproveCall(tokenAddress, spender, amount) ==
  [address |-> tokenAddress, spender |-> spender, amount |-> amount]

\* variant of approve_writeContract: the hash is returned without waiting
\* for the receipt
approve_writeContract_noWait ==
  /\ pc = "step2_approve"
  /\ calls' = [calls EXCEPT !.approve =
                 Append(@, ApproveCall(loc.caTokenAddress[1], OftAddress, ApprovalAmount(args.amountLD)))]
  /\ \/ /\ Throw("approve", 2)
        /\ UNCHANGED loc
     \/ /\ loc' = [loc EXCEPT !.approveHash = <<"0xapprovetx">>,
                              !.approvalResult = <<[approved |-> TRUE, txHash |-> "0xapprovetx"]>>]
        /\ trace' = Append(trace, Event("approve", 2, "ok"))
        /\ pc' = "step3_quoteSend"
        /\ output' = output \o <<"Approved", "Step 3/4: Getting quote...">>
        /\ UNCHANGED exit
  /\ UNCHANGED <<chain, mined, inv, applied, args>>

\* oft.ts:226-228, oft.ts:95-102  walletClient.writeContract(approve)
approve_writeContract ==
  /\ pc = "step2_approve"
  /\ calls' = [calls EXCEPT !.approve =
                 Append(@, ApproveCall(loc.caTokenAddress[1], OftAddress, ApprovalAmount(args.amountLD)))]
  /\ \/ /\ Throw("approve", 2)
        /\ UNCHANGED loc
     \/ /\ loc' = [loc EXCEPT !.approveHash = <<"0xapprovetx">>]
        /\ trace' = Append(trace, Event("approve", 2, "ok"))
        /\ pc' = "step2_waitForReceipt"
        /\ UNCHANGED <<output, exit>>
  /\ UNCHANGED <<chain, mined, inv, applied, args>>

\* the ledger executes a submitted approve(spender, amount)
MineApprove(status) ==
  /\ status = "success" => calls.approve[1].address = ActualToken
  /\ mined' = Append(mined, [kind |-> "approve", status |-> status, inv |-> inv])
  /\ chain' = IF status = "success"
                THEN [chain EXCEPT !.allowance = calls.approve[1].amount]
                ELSE chain

\* variant of approve_waitRejected: the rejection is swallowed and the
\* approval is reported as done
approve_waitSwallowed ==
  /\ trace' = Append(trace, Event("approveReceipt", 2, "throw"))
  /\ loc' = [loc EXCEPT !.approvalResult = <<[approved |-> TRUE, txHash |-> loc.approveHash[1]]>>]
  /\ pc' = "step3_quoteSend"
  /\ output' = output \o <<"Approved", "Step 3/4: Getting quote...">>
  /\ UNCHANGED exit
  /\ \/ UNCHANGED <<chain, mined>>
     \/ \E status \in {"success", "reverted"} : MineApprove(status)

\* oft.ts:105  the wait rejects (timeout, transport error): the rejection
\* propagates out of approve and checkAndApprove into the catch of Send.run.
\* The transaction itself may or may not have been mined.
approve_waitRejected ==
  /\ Throw("approveReceipt", 2)
  /\ UNCHANGED loc
  /\ \/ UNCHANGED <<chain, mined>>
     \/ \E status \in {"success", "reverted"} : MineApprove(status)

\* oft.ts:105-107, oft.ts:230, send.ts:116-126  the receipt arrives; its
\* status is not inspected
approve_receipt(status) ==
  /\ MineApprove(status)
  /\ trace' = Append(trace, Event("approveReceipt", 2, "ok"))
  /\ loc' = [loc EXCEPT !.approvalResult = <<[approved |-> TRUE, txHash |-> loc.approveHash[1]]>>]
  /\ pc' = "step3_quoteSend"
  /\ output' = output \o <<"Approved", "Step 3/4: Getting quote...">>
  /\ UNCHANGED exit

approve_waitForTransactionReceipt ==
  /\ pc = "step2_waitForReceipt"
  /\ \/ approve_waitRejected
     \/ \E status \in {"success", "reverted"} : approve_receipt(status)
  /\ UNCHANGED <<inv, applied, args, calls>>

\* oft.ts:121-126  readContract quoteSend, args: [sendParam, payInLzToken];
\* send.ts:126 leaves payInLzToken at its default false (oft.ts:118)
QuoteSendCall(sendParam, payInLzToken) ==
  [param |-> sendParam, payInLzToken |-> payInLzToken]

\* variant of QuoteOFTCall: the limits are quoted without the executor options
QuoteOFTCallEmptyOptions(sendParam) ==
  [param |-> [sendParam EXCEPT !.extraOptions = emptyOptions]]

\* oft.ts:129-133  readContract quoteOFT, args: [sendParam]
QuoteOFTCall(sendParam) == [param |-> sendParam]

\* variant of SendCall: the attached value is the other fee component
SendCallLzTokenValue(sendParam, fee, refundAddress) ==
  [param |-> sendParam, fee |-> fee, refundAddress |-> refundAddress,
   value |-> fee.lzTokenFee]

\* oft.ts:172-180  writeContract send, args: [sendParam, fee, refundAddress],
\* value: fee.nativeFee
SendCall(sendParam, fee, refundAddress) ==
  [param |-> sendParam, fee |-> fee, refundAddress |-> refundAddress,
   value |-> fee.nativeFee]

\* oft.ts:121-126
quoteSend_quoteSend ==
  /\ pc = "step3_quoteSend"
  /\ calls' = [calls EXCEPT !.quoteSend = Append(@, QuoteSendCall(args.sendParam[1], FALSE))]
  /\ \/ /\ Throw("quoteSend", 3)
        /\ UNCHANGED loc
     \/ /\ \E nativeFee \in FeeValues :
             loc' = [loc EXCEPT !.messagingFee =
                       <<[lzTokenFee |-> 0, nativeFee |-> nativeFee]>>]
        /\ trace' = Append(trace, Event("quoteSend", 3, "ok"))
        /\ pc' = "step3_quoteOFT"
        /\ UNCHANGED <<output, exit>>
  /\ UNCHANGED <<chain, mined, inv, applied, args>>

\* oft.ts:140-157  the QuoteResult assembled from the two reads
QuoteResult(messagingFee, limit, feeDetails, receipt) ==
  [feeDetails |-> feeDetails,
   limit |-> [maxAmountLD |-> limit.maxAmountLD, minAmountLD |-> limit.minAmountLD],
   messagingFee |-> [lzTokenFee |-> messagingFee.lzTokenFee, nativeFee |-> messagingFee.nativeFee],
   receipt |-> [amountReceivedLD |-> receipt.amountReceivedLD, amountSentLD |-> receipt.amountSentLD]]

\* variant of quoteSend_quoteOFT: the --dry-run flag is not consulted
quoteSend_quoteOFT_ignoreDryRun ==
  /\ pc = "step3_quoteOFT"
  /\ calls' = [calls EXCEPT !.quoteOFT = Append(@, QuoteOFTCall(args.sendParam[1]))]
  /\ \/ /\ Throw("quoteOFT", 3)
        /\ UNCHANGED loc
     \/ LET limit == [maxAmountLD |-> maxApproval, minAmountLD |-> 0]
            receipt == [amountReceivedLD |-> args.amountLD, amountSentLD |-> args.amountLD]
            quote == QuoteResult(loc.messagingFee[1], limit, <<>>, receipt)
        IN  /\ loc' = [loc EXCEPT !.quote = <<quote>>]
            /\ trace' = Append(trace, Event("quoteOFT", 3, "ok"))
            /\ pc' = "step4_send"
            /\ output' = output \o <<"Fee", "Will receive", "Step 4/4: Sending transaction...">>
            /\ UNCHANGED exit
  /\ UNCHANGED <<chain, mined, inv, applied, args>>

\* oft.ts:129-157, then send.ts:127-142
quoteSend_quoteOFT ==
  /\ pc = "step3_quoteOFT"
  /\ calls' = [calls EXCEPT !.quoteOFT = Append(@, QuoteOFTCall(args.sendParam[1]))]
  /\ \/ /\ Throw("quoteOFT", 3)
        /\ UNCHANGED loc
     \/ LET limit == [maxAmountLD |-> maxApproval, minAmountLD |-> 0]
            receipt == [amountReceivedLD |-> args.amountLD, amountSentLD |-> args.amountLD]
            quote == QuoteResult(loc.messagingFee[1], limit, <<>>, receipt)
        IN  /\ loc' = [loc EXCEPT !.quote = <<quote>>]
            /\ trace' = Append(trace, Event("quoteOFT", 3, "ok"))
            /\ IF args.dryRun
                 THEN /\ pc' = "done"
                      /\ exit' = "ok"
                      /\ output' = output \o <<"Fee", "Will receive",
                                                "Step 4/4: Dry run (skipping actual send)",
                                                "Dry run complete"(* send.ts:137 *)>>
                 ELSE /\ pc' = "step4_send"
                      /\ output' = output \o <<"Fee", "Will receive", "Step 4/4: Sending transaction...">>
                      /\ UNCHANGED exit
  /\ UNCHANGED <<chain, mined, inv, applied, args>>

\* variant of send_writeContract: a rejected submission is submitted again
send_writeContract_resubmit ==
  /\ pc = "step4_send"
  /\ calls' = [calls EXCEPT !.send =
                 Append(@, SendCall(args.sendParam[1], loc.quote[1].messagingFee, SenderAddress))]
  /\ \/ /\ Len(calls.send) < 2
        /\ trace' = Append(trace, Event("send", 4, "throw"))
        /\ UNCHANGED <<loc, pc, output, exit>>
     \/ /\ loc' = [loc EXCEPT !.sendHash = <<"0xsendtx">>]
        /\ trace' = Append(trace, Event("send", 4, "ok"))
        /\ pc' = "step4_waitForReceipt"
        /\ UNCHANGED <<output, exit>>
  /\ UNCHANGED <<chain, mined, inv, applied, args>>

\* send.ts:143-150, oft.ts:172-180  walletClient.writeContract(send)
send_writeContract ==
  /\ pc = "step4_send"
  /\ calls' = [calls EXCEPT !.send =
                 Append(@, SendCall(args.sendParam[1], loc.quote[1].messagingFee, SenderAddress))]
  /\ \/ /\ Throw("send", 4)
        /\ UNCHANGED loc
     \/ /\ loc' = [loc EXCEPT !.sendHash = <<"0xsendtx">>]
        /\ trace' = Append(trace, Event("send", 4, "ok"))
        /\ pc' = "step4_waitForReceipt"
        /\ UNCHANGED <<output, exit>>
  /\ UNCHANGED <<chain, mined, inv, applied, args>>

\* the ledger executes a submitted send(): it reverts unless the balance,
\* the allowance (adapters) and the attached value cover the transfer and
\* the messaging fee of the moment
SendCanSucceed ==
  LET call == calls.send[1] IN
  /\ chain.balance >= call.param.amountLD
  /\ chain.approvalRequired => chain.allowance >= call.param.amountLD
  /\ \E nativeFee \in FeeValues : call.value >= nativeFee

MineSend(status) ==
  LET amount == calls.send[1].param.amountLD IN
  /\ status = "success" => SendCanSucceed
  /\ mined' = Append(mined, [kind |-> "send", status |-> status, inv |-> inv])
  /\ chain' = IF status = "success"
                THEN [chain EXCEPT !.balance = @ - amount,
                                   !.allowance = IF chain.approvalRequired /\ @ # maxApproval
                                                   THEN @ - amount ELSE @]
                ELSE chain

\* variant of send_waitRejected: the rejection is swallowed and a result with
\* the empty guid is returned
send_waitSwallowed ==
  /\ trace' = Append(trace, Event("sendReceipt", 4, "throw"))
  /\ loc' = [loc EXCEPT !.result = <<[guid |-> "0x", txHash |-> loc.sendHash[1]]>>]
  /\ output' = output \o <<"Transaction sent!", "Results", "TX Hash", "Explorer", "Status: Pending">>
  /\ pc' = "done"
  /\ exit' = "ok"
  /\ \/ UNCHANGED <<chain, mined>>
     \/ \E status \in {"success", "reverted"} : MineSend(status)

\* oft.ts:183  the wait rejects: the rejection propagates out of send into
\* the catch of Send.run
send_waitRejected ==
  /\ Throw("sendReceipt", 4)
  /\ UNCHANGED loc
  /\ \/ UNCHANGED <<chain, mined>>
     \/ \E status \in {"success", "reverted"} : MineSend(status)

\* send.ts:152-166  the lines printed for a returned {guid, txHash}
Results(guid, txHash) ==
  <<"Transaction sent!", "Results", "TX Hash", "Explorer">>
    \o (IF guid # "0x" THEN <<"LayerZero">> ELSE <<>>)
    \o <<"Status: Pending">>

\* oft.ts:183-195, then send.ts:152-166  the receipt arrives; its status is
\* not inspected
send_receipt(status, logs) ==
  /\ MineSend(status)
  /\ LET guid == ExtractGuid(logs)
         txHash == loc.sendHash[1]
     IN  /\ loc' = [loc EXCEPT !.receipt = <<[status |-> status, logs |-> logs]>>,
                               !.result = <<[guid |-> guid, txHash |-> txHash]>>]
         /\ output' = output \o Results(guid, txHash)
  /\ trace' = Append(trace, Event("sendReceipt", 4, "ok"))
  /\ pc' = "done"
  /\ exit' = "ok"

send_waitForTransactionReceipt ==
  /\ pc = "step4_waitForReceipt"
  /\ \/ send_waitRejected
     \/ \E logs \in ReceiptLogs : send_receipt("success", logs)
     \/ send_receipt("reverted", <<>>)
  /\ UNCHANGED <<inv, applied, args, calls>>

\* send.ts:139, 166, 169-172  the command returns or ends in this.error and
\* the process exits; nothing but the chain outlives it
ProcessExit ==
  /\ pc \in {"done", "failed"}
  /\ pc' = "idle"
  /\ args' = NoArgs
  /\ loc' = NoLocals
  /\ trace' = <<>>
  /\ calls' = NoCalls
  /\ output' = <<>>
  /\ exit' = "none"
  /\ UNCHANGED <<chain, mined, inv, applied>>

Next ==
  \/ \E amount \in AmountInputs, slippage \in SlippageInputs, dryRun \in BOOLEAN, privateKey \in BOOLEAN :
       Run(amount, slippage, dryRun, privateKey)
  \/ Step1_getTokenAddress
  \/ Step1_getBalance
  \/ checkAndApprove_isApprovalRequired
  \/ checkAndApprove_getTokenAddress
  \/ checkAndApprove_getAllowance
  \/ approve_writeContract
  \/ approve_waitForTransactionReceipt
  \/ quoteSend_quoteSend
  \/ quoteSend_quoteOFT
  \/ send_writeContract
  \/ send_waitForTransactionReceipt
  \/ ProcessExit

Spec == Init /\ [][Next]_vars

\* ------------------------------------------------------------ properties
Positions == 1..Len(trace)

OkBefore(op, i) == \E j \in 1..(i - 1) : trace[j].op = op /\ trace[j].outcome = "ok"

Threw(ops) == \E i \in Positions : trace[i].op \in ops /\ trace[i].outcome = "throw"

\* the approval check has run to completion before position i: its last
\* operation before i succeeded and is one that ends checkAndApprove
ApprovalDoneBefore(i) ==
  \E j \in 1..(i - 1) :
    /\ trace[j].step = 2
    /\ trace[j].outcome = "ok"
    /\ trace[j].op \in {"approvalRequired", "allowance", "approveReceipt"}
    /\ \A k \in (j + 1)..(i - 1) : trace[k].step # 2
    /\ \A k \in 1..(i - 1) : trace[k].op = "approve" => trace[j].op = "approveReceipt"

\* C1: the remote operations of one invocation happen in the order balance
\* read, approval check (with its transaction), quote reads, transfer; a step
\* starts only after the previous one completed, and a submitted approval has
\* its receipt before any quote read or transfer submission.
\* (The trace only grows by appending, so every operation of every invocation
\* is the last one of some reachable state: it is stated for the last one.)
C1_StrictOrder ==
  trace # <<>> =>
    LET i == Len(trace) IN
    /\ \A j \in 1..(i - 1) : trace[j].step <= trace[i].step
    /\ trace[i].step >= 2 => OkBefore("balanceOf", i)
    /\ trace[i].step >= 3 => ApprovalDoneBefore(i)
    /\ trace[i].op = "quoteOFT" => OkBefore("quoteSend", i)
    /\ trace[i].step = 4 => OkBefore("quoteSend", i) /\ OkBefore("quoteOFT", i)
    /\ trace[i].op = "sendReceipt" => OkBefore("send", i)

C1_Witness ==
  /\ pc = "done"
  /\ \E i \in Positions : trace[i].op = "approveReceipt"
  /\ \E i \in Positions : trace[i].op = "sendReceipt" /\ trace[i].outcome = "ok"

\* C2: once a step of the workflow raises, nothing more is read or submitted
\* in that invocation and the command ends with an error.
C2_FailFast ==
  /\ \A i \in Positions : trace[i].outcome = "throw" =>
        i = Len(trace) /\ pc = "failed" /\ exit = "error"
  /\ (\E k \in 1..Len(output) : output[k] = "Insufficient balance") =>
        /\ trace[Len(trace)].op = "balanceOf"
        /\ pc = "failed" /\ exit = "error"
  /\ pc = "failed" <=> exit = "error"

C2_Witness ==
  /\ Threw({"quoteOFT"})
  /\ pc = "failed"
  /\ calls.send = <<>>

\* C3: an approval transaction is submitted exactly when approvalRequired()
\* returned true and the allowance read is below the amount; otherwise
\* approved=false, without an allowance read when approval is not required.
C3_ApproveIffInsufficient ==
  LET insufficient == /\ loc.needsApproval = <<TRUE>>
                      /\ loc.currentAllowance # <<>>
                      /\ loc.currentAllowance[1] < args.amountLD
      submitting == calls.approve # <<>> \/ pc = "step2_approve"
      notApproved == <<[approved |-> FALSE, txHash |-> "undefined"]>>
  IN  /\ submitting <=> insufficient
      /\ Len(calls.approve) <= 1
      /\ loc.needsApproval = <<FALSE>> =>
           /\ loc.approvalResult = notApproved
           /\ \A i \in Positions : trace[i].op # "allowance"
      /\ (loc.currentAllowance # <<>> /\ loc.currentAllowance[1] >= args.amountLD) =>
           loc.approvalResult = notApproved

C3_Witness ==
  /\ calls.approve # <<>>
  /\ loc.currentAllowance[1] + 1 = args.amountLD
  /\ loc.approvalResult # <<>>

C3_WitnessNoTx ==
  /\ loc.currentAllowance = <<args.amountLD>>
  /\ loc.needsApproval = <<TRUE>>
  /\ pc = "done"

\* C4: the approval approves the maximum value, so once an approval has been
\* mined successfully the allowance is the maximum and no later
\* checkAndApprove submits another approval; it returns approved=false.
C4_ApprovalIdempotent ==
  \A k \in 1..Len(mined) :
    (mined[k].kind = "approve" /\ mined[k].status = "success") =>
      /\ chain.allowance = maxApproval
      /\ mined[k].inv < inv =>
           /\ calls.approve = <<>>
           /\ pc # "step2_approve"
           /\ loc.approvalResult # <<>> => ~loc.approvalResult[1].approved

C4_Witness ==
  /\ inv = 2
  /\ \E k \in 1..Len(mined) :
       mined[k].kind = "approve" /\ mined[k].status = "success" /\ mined[k].inv = 1
  /\ loc.needsApproval = <<TRUE>>
  /\ loc.currentAllowance = <<maxApproval>>
  /\ loc.approvalResult = <<[approved |-> FALSE, txHash |-> "undefined"]>>

\* C5: when submitting the approval or waiting for its receipt fails,
\* checkAndApprove returns nothing (never approved=true) and the command
\* makes no quote read and submits no transfer.
C5_ApprovalFailureStops ==
  Threw({"approve", "approveReceipt"}) =>
    /\ loc.approvalResult = <<>>
    /\ calls.quoteSend = <<>> /\ calls.quoteOFT = <<>> /\ calls.send = <<>>
    /\ \A i \in Positions : trace[i].step <= 2
    /\ pc = "failed" /\ exit = "error"

C5_Witness ==
  /\ Threw({"approveReceipt"})
  /\ \E k \in 1..Len(mined) : mined[k].kind = "approve" /\ mined[k].inv = inv

\* the logs of the transfer receipt whose first topic is the OFTSent topic
IsOFTSentLog(log) == Len(log.topics) >= 1 /\ log.topics[1] = OFTSentTopic

FirstOFTSent(logs) == CHOOSE i \in 1..Len(logs) :
  IsOFTSentLog(logs[i]) /\ \A j \in 1..(i - 1) : ~IsOFTSentLog(logs[j])

HasOFTSent(logs) == \E i \in 1..Len(logs) : IsOFTSentLog(logs[i])

\* C6: when the transfer receipt carries a log whose first topic is the
\* keccak256 OFTSent topic, send returns topics[1] of the first such log as
\* guid, with the transaction hash.
C6_GuidFromOFTSent ==
  (loc.receipt # <<>> /\ HasOFTSent(loc.receipt[1].logs)) =>
    /\ loc.result # <<>>
    /\ loc.result[1].txHash = loc.sendHash[1]
    /\ loc.result[1].guid = loc.receipt[1].logs[FirstOFTSent(loc.receipt[1].logs)].topics[2]

\* C7: a receipt without an OFTSent log gives the transaction hash with the
\* empty guid '0x' and no error; every result carries the transaction hash.
C7_MissingEventGivesEmptyGuid ==
  /\ loc.result # <<>> => loc.result[1].txHash = "0xsendtx" /\ loc.sendHash = <<"0xsendtx">>
  /\ (loc.receipt # <<>> /\ ~HasOFTSent(loc.receipt[1].logs)) =>
       /\ loc.result # <<>>
       /\ loc.result[1].guid = "0x"
       /\ pc = "done" /\ exit = "ok"

C7_Witness ==
  /\ loc.receipt # <<>>
  /\ loc.receipt[1].logs = <<[topics |-> <<>>], [topics |-> <<TransferTopic, "0xfrom">>]>>
  /\ loc.result = <<[guid |-> "0x", txHash |-> "0xsendtx"]>>

\* C8: when submitting the transfer or waiting for its receipt fails, send
\* returns no result, the command prints no result lines and does nothing more.
C8_TransferFailureStops ==
  Threw({"send", "sendReceipt"}) =>
    /\ loc.result = <<>>
    /\ \A k \in 1..Len(output) : output[k] \notin {"Transaction sent!", "Results", "TX Hash", "Explorer", "LayerZero", "Status: Pending"}
    /\ trace[Len(trace)].outcome = "throw"
    /\ pc = "failed" /\ exit = "error"

C8_Witness ==
  /\ Threw({"sendReceipt"})
  /\ \E k \in 1..Len(mined) : mined[k].kind = "send" /\ mined[k].status = "success" /\ mined[k].inv = inv

\* C9: the quoteSend read, the quoteOFT read and the transfer submission of
\* one invocation receive the one SendParam built at the start, with empty
\* composeMsg and oftCmd.
C9_SameSendParam ==
  \A c \in {calls.quoteSend[i].param : i \in 1..Len(calls.quoteSend)}
        \cup {calls.quoteOFT[i].param : i \in 1..Len(calls.quoteOFT)}
        \cup {calls.send[i].param : i \in 1..Len(calls.send)} :
    /\ args.sendParam = <<c>>
    /\ c.amountLD = args.amountLD
    /\ c.composeMsg = <<>> /\ c.oftCmd = <<>>

C9_Witness ==
  /\ calls.quoteSend # <<>> /\ calls.quoteOFT # <<>> /\ calls.send # <<>>
  /\ calls.send[1].param.minAmountLD < calls.send[1].param.amountLD

\* C10: the transfer carries fee.nativeFee as value, the fee is the
\* messagingFee the quoteSend read of the same invocation returned (quoted
\* with payInLzToken=false), and the refund address is the sender.
C10_ValueIsQuotedFee ==
  calls.send # <<>> =>
    LET call == calls.send[1] IN
    /\ call.value = call.fee.nativeFee
    /\ loc.messagingFee # <<>> /\ call.fee = loc.messagingFee[1]
    /\ \E i \in Positions : trace[i].op = "quoteSend" /\ trace[i].outcome = "ok"
    /\ calls.quoteSend = <<[param |-> call.param, payInLzToken |-> FALSE]>>
    /\ call.refundAddress = SenderAddress

C10_Witness ==
  /\ inv = 2
  /\ calls.send # <<>>
  /\ calls.send[1].value = 2
  /\ \E k \in 1..Len(mined) : mined[k].kind = "send" /\ mined[k].inv = 1 /\ mined[k].status = "success"

Submitted(op) == \E i \in Positions : trace[i].op = op /\ trace[i].outcome = "ok"

Printed(line) == \E k \in 1..Len(output) : output[k] = line

\* C11: with --dry-run the command runs the balance check, the approval
\* check and the quote and returns without calling send: no transfer
\* transaction is submitted.
C11_DryRunNeverSends ==
  args.dryRun =>
    /\ calls.send = <<>>
    /\ \A i \in Positions : trace[i].step <= 3
    /\ pc \notin {"step4_send", "step4_waitForReceipt"}
    /\ pc = "done" =>
         /\ loc.balance # <<>> /\ loc.approvalResult # <<>> /\ loc.quote # <<>>
         /\ Printed("Dry run complete")
         /\ exit = "ok"

C11_Witness ==
  /\ args.dryRun
  /\ pc = "done"
  /\ loc.quote # <<>>
  /\ Submitted("approveReceipt")

\* C12: a balance read below the parsed amount aborts the command with an
\* insufficient-balance error: no approval, no quote read, no transfer.
C12_InsufficientBalanceAborts ==
  (loc.balance # <<>> /\ loc.balance[1] < args.amountLD) =>
    /\ pc = "failed" /\ exit = "error"
    /\ Printed("Insufficient balance")
    /\ calls = NoCalls
    /\ \A i \in Positions : trace[i].step = 1

C12_Witness ==
  /\ loc.balance = <<0>>
  /\ args.amountLD = 1
  /\ pc = "failed"

\* C13: one invocation submits at most one approval and at most one
\* transfer, makes every remote call at most once, and attempts nothing
\* after a failure.
C13_NoRetry ==
  /\ Len(calls.approve) <= 1 /\ Len(calls.send) <= 1
  /\ Len(calls.quoteSend) <= 1 /\ Len(calls.quoteOFT) <= 1
  /\ \A i \in Positions :
       /\ trace[i].outcome = "throw" => i = Len(trace)
       /\ \A j \in 1..(i - 1) :
            ~(trace[j].op = trace[i].op /\ trace[j].step = trace[i].step)

C13_Witness ==
  /\ Submitted("approve")
  /\ \E i \in Positions : trace[i].op = "send" /\ trace[i].outcome = "throw"
  /\ Len(calls.send) = 1

\* ------------------------------------------------------- the quote command
\* quote.ts:54 and send.ts:71: the parsed amounts of "0", "1", "100" and "-1"
QuoteAmountInputs == {0, 1000000, 100000000, -1000000}

\* quote.ts:38-41 --slippage: <<>> is a text Number.parseFloat turns into
\* NaN, <<m>> the number m/1000
SlippageFlagInputs ==
  {<<>>, <<-100000>>, <<-1000>>, <<0>>, <<290>>, <<500>>, <<100000>>, <<200000>>}

\* quote.ts:60-70: --to given, only PYUSD_PRIVATE_KEY set, or neither
RecipientInputs == {"to", "privateKey", "none"}

\* viem encodes a uint256 argument before the request is made and throws
\* IntegerOutOfRangeError outside 0..2^256-1; no amount here is near 2^256
EncodableUint256(value) == value >= 0

\* quote.ts:123-129  a rejection inside the try block ends the command
QuoteThrow(op) ==
  /\ trace' = Append(trace, Event(op, 1, "throw"))
  /\ pc' = "failed"
  /\ exit' = "error"
  /\ output' = Append(output, "Failed to get quote")

\* quote.ts:47-88
Quote_run(amount, slippage, recipient) ==
  /\ pc = "idle"
  /\ inv < MaxInvocations
  /\ inv' = inv + 1
  /\ trace' = <<>>
  /\ calls' = NoCalls
  /\ loc' = NoLocals
  /\ IF slippage = <<>>
       THEN \* format.ts:51  BigInt(NaN) throws RangeError, outside any try
            /\ args' = NoArgs
            /\ pc' = "failed"
            /\ exit' = "error"
            /\ output' = <<"RangeError">>
       ELSE IF recipient = "none"
       THEN /\ args' = NoArgs
            /\ pc' = "failed"
            /\ exit' = "error"
            /\ output' = <<"Either --to flag or PYUSD_PRIVATE_KEY environment variable is required">>
       ELSE LET amountLD == amount
                minAmountLD == calculateMinAmount(amountLD, slippage[1])
                recipientAddress == IF recipient = "to" THEN Addr(4) ELSE SenderAddress
                sendParam == BuildSendParam(amountLD, minAmountLD, DEFAULT_GAS_LIMIT, recipientAddress)
            IN  /\ args' = [amountLD |-> amountLD, dryRun |-> FALSE, sendParam |-> <<sendParam>>]
                /\ pc' = "quote_quoteSend"
                /\ exit' = "running"
                /\ output' = <<"PYUSD Transfer Quote">>
  /\ UNCHANGED <<chain, mined, applied>>

\* variant of Quote_quoteSend: after a failed first read the limits are
\* read all the same, with a fee of zero
Quote_quoteSend_continue ==
  /\ pc = "quote_quoteSend"
  /\ calls' = [calls EXCEPT !.quoteSend = Append(@, QuoteSendCall(args.sendParam[1], FALSE))]
  /\ \/ /\ trace' = Append(trace, Event("quoteSend", 1, "throw"))
        /\ loc' = [loc EXCEPT !.messagingFee = <<[lzTokenFee |-> 0, nativeFee |-> 0]>>]
     \/ /\ \E nativeFee \in FeeValues :
             loc' = [loc EXCEPT !.messagingFee =
                       <<[lzTokenFee |-> 0, nativeFee |-> nativeFee]>>]
        /\ trace' = Append(trace, Event("quoteSend", 1, "ok"))
  /\ pc' = "quote_quoteOFT"
  /\ UNCHANGED <<chain, mined, inv, applied, args, output, exit>>

\* quote.ts:91 -> oft.ts:121-126  the first read of quoteSend
Quote_quoteSend ==
  /\ pc = "quote_quoteSend"
  /\ LET sendParam == args.sendParam[1]
     IN  IF ~(EncodableUint256(sendParam.amountLD) /\ EncodableUint256(sendParam.minAmountLD))
           THEN /\ QuoteThrow("quoteSend")
                /\ UNCHANGED <<loc, calls>>
           ELSE /\ calls' = [calls EXCEPT !.quoteSend = Append(@, QuoteSendCall(sendParam, FALSE))]
                /\ \/ /\ QuoteThrow("quoteSend")
                      /\ UNCHANGED loc
                   \/ /\ \E nativeFee \in FeeValues :
                           loc' = [loc EXCEPT !.messagingFee =
                                     <<[lzTokenFee |-> 0, nativeFee |-> nativeFee]>>]
                      /\ trace' = Append(trace, Event("quoteSend", 1, "ok"))
                      /\ pc' = "quote_quoteOFT"
                      /\ UNCHANGED <<output, exit>>
  /\ UNCHANGED <<chain, mined, inv, applied, args>>

\* oft.ts:129-157, then quote.ts:93-122
Quote_quoteOFT ==
  /\ pc = "quote_quoteOFT"
  /\ calls' = [calls EXCEPT !.quoteOFT = Append(@, QuoteOFTCall(args.sendParam[1]))]
  /\ \/ /\ QuoteThrow("quoteOFT")
        /\ UNCHANGED loc
     \/ LET limit == [maxAmountLD |-> args.amountLD, minAmountLD |-> 0]
            receipt == [amountReceivedLD |-> args.amountLD, amountSentLD |-> args.amountLD]
            quote == QuoteResult(loc.messagingFee[1], limit, <<>>, receipt)
        IN  /\ loc' = [loc EXCEPT !.quote = <<quote>>]
            /\ trace' = Append(trace, Event("quoteOFT", 1, "ok"))
            /\ pc' = "done"
            /\ exit' = "ok"
            /\ output' = output \o <<"LayerZero Fee", "Amount Sent", "Amount Received",
                                      "Min Received", "Min Transfer", "Max Transfer">>
  /\ UNCHANGED <<chain, mined, inv, applied, args>>

InitQuote ==
  /\ chain = NoChain
  /\ Idle
  /\ applied = NotApplied

NextQuote ==
  \/ \E amount \in QuoteAmountInputs, slippage \in SlippageFlagInputs,
        recipient \in RecipientInputs :
       Quote_run(amount, slippage, recipient)
  \/ Quote_quoteSend
  \/ Quote_quoteOFT
  \/ ProcessExit

SpecQuote == InitQuote /\ [][NextQuote]_vars

\* C18: every SendParam the quote or send command passes to the contract
\* satisfies 0 <= minAmountLD <= amountLD, whatever --slippage the user gives.
C18_MinAmountBounded ==
  \A k \in 1..Len(calls.quoteSend) :
    LET sendParam == calls.quoteSend[k].param
    IN  0 <= sendParam.minAmountLD /\ sendParam.minAmountLD <= sendParam.amountLD

\* --slippage=-1 with amount 100: 101 is demanded as the minimum of 100
C18_Diverges ==
  /\ calls.quoteSend # <<>>
  /\ calls.quoteSend[1].param.amountLD = 100000000
  /\ calls.quoteSend[1].param.minAmountLD = 101000000

\* a slippage above 100 or a non-numeric one never reaches the contract
C18_RejectedInputs ==
  /\ (args.sendParam # <<>> /\ args.sendParam[1].minAmountLD < 0) => calls.quoteSend = <<>>
  /\ Printed("RangeError") => calls = NoCalls

\* ------------------------------------------- buildLzReceiveOptions on its own
\* largest gas limit of the dense range of inputs
MaxGasLimit == 300

\* 2^128 - 1 and 2^128 as base-256 digits
MaxUint128 == [i \in 1..16 |-> 255]
TwoPow128 == <<1>> \o [i \in 1..16 |-> 0]

\* the gas limits handed to buildLzReceiveOptions
GasLimitInputs ==
  {Digits(n) : n \in 0..MaxGasLimit}
    \cup {Digits(DEFAULT_GAS_LIMIT), Digits(65536), MaxUint128, TwoPow128, TwoPow128 \o <<0>>}

\* the argument lists of a call: the gas limit may be omitted
GasLimitArguments == {<<>>} \cup {<<g>> : g \in GasLimitInputs}

\* options.ts:22  gasLimit: bigint = DEFAULT_GAS_LIMIT
GasLimitOf(arguments) ==
  IF arguments = <<>> THEN Digits(DEFAULT_GAS_LIMIT) ELSE arguments[1]

\* a library function is about to be applied to the arguments
Applying(fn, arguments) ==
  [fn |-> fn, arg |-> arguments, result |-> <<>>, done |-> FALSE]

InitOptions ==
  /\ chain = NoChain
  /\ Idle
  /\ \E arguments \in GasLimitArguments :
       applied = Applying("buildLzReceiveOptions", arguments)

\* the call returns its bytes or throws
buildLzReceiveOptions_call ==
  /\ applied.fn = "buildLzReceiveOptions"
  /\ ~applied.done
  /\ applied' = [applied EXCEPT !.result = buildLzReceiveOptions(GasLimitOf(applied.arg)),
                                !.done = TRUE]
  /\ UNCHANGED <<chain, mined, pc, inv, args, loc, trace, calls, output, exit>>

NextOptions == buildLzReceiveOptions_call

SpecOptions == InitOptions /\ [][NextOptions]_vars

\* the digits of a byte string read as a big-endian unsigned integer
RECURSIVE StripLeadingZeros(_)
StripLeadingZeros(bytes) ==
  IF bytes # <<>> /\ bytes[1] = 0 THEN StripLeadingZeros(Tail(bytes)) ELSE bytes

OptionsOf200000 == <<0, 3, 1, 0, 17, 1, 0, 0, 0, 0, 0, 0, 0, 0, 0, 0, 0, 0, 0, 3, 13, 64>>

C15_WitnessZero ==
  /\ applied.done
  /\ applied.arg = <<Digits(0)>>
  /\ Len(applied.result) = 22

\* --------------------------------------------- calculateMinAmount on its own
\* the slippages 0.00, 0.01, ... are dense up to this many hundredths
MaxSlippageHundredths == 1000

\* amounts in token units of 10^-6
AmountLDInputs == {0, 1, 99, 100, 101, 9999, 10000, 10001, 1000000, 100000000}

\* slippages of [0, 100] percent, in thousandths of a percent
SlippagePercentInputs ==
  {10 * h : h \in 0..MaxSlippageHundredths}
    \cup {1000 * k : k \in 11..100}
    \cup {5, 295, 499, 505, 9999}

InitMinAmount ==
  /\ chain = NoChain
  /\ Idle
  /\ \E amount \in AmountLDInputs, slippageMilli \in SlippagePercentInputs :
       applied = Applying("calculateMinAmount",
                          [amount |-> amount, slippageMilli |-> slippageMilli])

calculateMinAmount_call ==
  /\ applied.fn = "calculateMinAmount"
  /\ ~applied.done
  /\ applied' = [applied EXCEPT
                   !.result = <<calculateMinAmount(applied.arg.amount, applied.arg.slippageMilli)>>,
                   !.done = TRUE]
  /\ UNCHANGED <<chain, mined, pc, inv, args, loc, trace, calls, output, exit>>

NextMinAmount == calculateMinAmount_call

SpecMinAmount == InitMinAmount /\ [][NextMinAmount]_vars

\* C16: for every amount >= 0 and every slippagePercent in [0, 100] the
\* result m of calculateMinAmount is an integer with 0 <= m <= amount.
C16_MinAmountWithinAmount ==
  (applied.done /\ applied.arg.amount >= 0
     /\ applied.arg.slippageMilli \in 0..100000) =>
    /\ applied.result[1] \in Int
    /\ 0 <= applied.result[1]
    /\ applied.result[1] <= applied.arg.amount

C16_Witness ==
  /\ applied.done
  /\ applied.arg = [amount |-> 100000000, slippageMilli |-> 500]
  /\ applied.result = <<99500000>>

C16_WitnessAll ==
  /\ applied.done
  /\ applied.arg = [amount |-> 10001, slippageMilli |-> 100000]
  /\ applied.result = <<0>>

\* C17: calculateMinAmount(amount, p) = amount - floor(amount * bps / 10000)
\* with bps = floor(p * 100), the slippage in whole basis points, truncated;
\* p = 0 gives amount, (1_000_000, 0.5) gives 995_000 and
\* (100_000_000, 0.5) gives 99_500_000.
C17_WholeBasisPoints ==
  applied.done =>
    LET amount == applied.arg.amount
        bps == applied.arg.slippageMilli \div 10
    IN  applied.result[1] = amount - BigIntMulDiv(amount, bps, 10000)

\* the three examples of C17 do hold
C17_Examples ==
  applied.done =>
    /\ applied.arg.slippageMilli = 0 => applied.result[1] = applied.arg.amount
    /\ applied.arg = [amount |-> 1000000, slippageMilli |-> 500]
         => applied.result[1] = 995000
    /\ applied.arg = [amount |-> 100000000, slippageMilli |-> 500]
         => applied.result[1] = 99500000

\* slippage 0.29: 28 basis points are deducted instead of 29
C17_Diverges ==
  /\ applied.done
  /\ applied.arg = [amount |-> 1000000, slippageMilli |-> 290]
  /\ applied.result = <<997200>>

\* ---------------------------------------------------- parseAmount on its own
\* A text is a sequence of one-character strings.
\* longest fraction of the generated amounts (PYUSD_DECIMALS + 1 shows the
\* loss of precision)
MaxFractionDigits == 7

DigitChars == {"0", "1", "2", "3", "4", "5", "6", "7", "8", "9"}

DigitValue(c) ==
  CASE c = "0" -> 0 [] c = "1" -> 1 [] c = "2" -> 2 [] c = "3" -> 3 [] c = "4" -> 4
    [] c = "5" -> 5 [] c = "6" -> 6 [] c = "7" -> 7 [] c = "8" -> 8 [] c = "9" -> 9

\* BigInt(text) of a run of digits; BigInt('') is 0n
RECURSIVE BigIntOfDigits(_)
BigIntOfDigits(text) ==
  IF text = <<>> THEN 0
  ELSE 10 * BigIntOfDigits(SubSeq(text, 1, Len(text) - 1)) + DigitValue(text[Len(text)])

\* text.replace(/(0+)$/, '')
RECURSIVE TrimTrailingZeros(_)
TrimTrailingZeros(text) ==
  IF text # <<>> /\ text[Len(text)] = "0"
    THEN TrimTrailingZeros(SubSeq(text, 1, Len(text) - 1))
    ELSE text

\* the positions of the dots of a text
DotPositions(text) == {i \in 1..Len(text) : text[i] = "."}

\* viem parseUnits: /^(-?)([0-9]*)\.?([0-9]*)$/.test(value)
IsDecimalNumber(value) ==
  LET unsigned == IF value # <<>> /\ value[1] = "-" THEN Tail(value) ELSE value
  IN  /\ Cardinality(DotPositions(unsigned)) <= 1
      /\ \A i \in 1..Len(unsigned) : unsigned[i] \in DigitChars \cup {"."}

\* what a parse gives: a thrown InvalidDecimalNumberError or a bigint
InvalidDecimalNumberError == [threw |-> TRUE, value |-> 0]
Returned(value) == [threw |-> FALSE, value |-> value]

Pow10(n) == 10 ^ n

\* variant of parseUnits: a fraction longer than the decimals is refused
parseUnitsExact(value, decimals) ==
  IF ~IsDecimalNumber(value) THEN InvalidDecimalNumberError
  ELSE
    LET negative == value # <<>> /\ value[1] = "-"
        unsigned == IF negative THEN Tail(value) ELSE value
        dots == DotPositions(unsigned)
        dot == IF dots = {} THEN Len(unsigned) + 1 ELSE CHOOSE i \in dots : TRUE
        integer == SubSeq(unsigned, 1, dot - 1)
        fraction == TrimTrailingZeros(IF dots = {} THEN <<"0">>
                                      ELSE SubSeq(unsigned, dot + 1, Len(unsigned)))
        magnitude == BigIntOfDigits(integer) * Pow10(decimals)
                       + BigIntOfDigits(fraction) * Pow10(decimals - Len(fraction))
    IN  IF Len(fraction) > decimals THEN InvalidDecimalNumberError
        ELSE Returned(IF negative THEN -magnitude ELSE magnitude)

\* viem parseUnits(value, decimals), decimals > 0: the text is checked
\* against the pattern, split at the dot, the fraction loses its trailing
\* zeros and, when it is still longer than the decimals, is ROUNDED at the
\* last decimal (Math.round of unit.right, a carry moving into the integer);
\* a shorter fraction is padded with zeros.
parseUnits(value, decimals) ==
  IF ~IsDecimalNumber(value) THEN InvalidDecimalNumberError
  ELSE
    LET negative == value # <<>> /\ value[1] = "-"
        unsigned == IF negative THEN Tail(value) ELSE value
        dots == DotPositions(unsigned)
        dot == IF dots = {} THEN Len(unsigned) + 1 ELSE CHOOSE i \in dots : TRUE
        integer == SubSeq(unsigned, 1, dot - 1)
        fraction == TrimTrailingZeros(IF dots = {} THEN <<"0">>
                                      ELSE SubSeq(unsigned, dot + 1, Len(unsigned)))
        left == SubSeq(fraction, 1, decimals - 1)
        unit == SubSeq(fraction, decimals, decimals)
        right == SubSeq(fraction, decimals + 1, Len(fraction))
        \* Math.round(Number(`${unit}.${right}`)): right ends in a non-zero
        \* digit, so the half is reached exactly when its first digit is >= 5
        rounded == DigitValue(unit[1]) + (IF DigitValue(right[1]) >= 5 THEN 1 ELSE 0)
        \* left and the rounded unit as one number of `decimals` digits; the
        \* value 10^decimals is the carry into the integer
        roundedFraction == 10 * BigIntOfDigits(left) + rounded
        magnitude ==
          IF Len(fraction) > decimals
            THEN BigIntOfDigits(integer) * Pow10(decimals) + roundedFraction
            ELSE BigIntOfDigits(integer) * Pow10(decimals)
                   + BigIntOfDigits(fraction) * Pow10(decimals - Len(fraction))
    IN  Returned(IF negative THEN -magnitude ELSE magnitude)

\* format.ts:26-28
parseAmount(amount) == parseUnits(amount, PYUSD_DECIMALS)

\* the texts handed to parseAmount
IntegerTexts == {<<>>, <<"0">>, <<"1">>, <<"9">>, <<"1", "0", "0">>}

FractionTexts == UNION {[1..n -> {"0", "5", "9"}] : n \in 0..MaxFractionDigits}

SignTexts == {<<>>, <<"-">>}

AmountTexts ==
  {sign \o integer \o <<".">> \o fraction :
     sign \in SignTexts, integer \in IntegerTexts, fraction \in FractionTexts}
    \cup {sign \o integer : sign \in SignTexts, integer \in IntegerTexts}
    \cup UNION {[1..n -> {"1", ".", "-", "a"}] : n \in 0..3}
    \cup {<<"1", ".", "0", "0", "0", "0", "0", "0", "4">>,
          <<"0", ".", "1", "2", "3", "4", "5", "6", "7">>,
          <<"1", "e", "6">>, <<"1", ",", "5">>, <<" ", "1">>, <<"0", "x", "1">>}

InitParseAmount ==
  /\ chain = NoChain
  /\ Idle
  /\ \E amount \in AmountTexts : applied = Applying("parseAmount", amount)

parseAmount_call ==
  /\ applied.fn = "parseAmount"
  /\ ~applied.done
  /\ applied' = [applied EXCEPT !.result = <<parseAmount(applied.arg)>>, !.done = TRUE]
  /\ UNCHANGED <<chain, mined, pc, inv, args, loc, trace, calls, output, exit>>

NextParseAmount == parseAmount_call

SpecParseAmount == InitParseAmount /\ [][NextParseAmount]_vars

\* an optional sign, digits with at most one dot, and at least one digit
WellFormedDecimal(text) ==
  /\ IsDecimalNumber(text)
  /\ \E i \in 1..Len(text) : text[i] \in DigitChars

\* the digits after the dot, trailing zeros aside
SignificantFraction(text) ==
  IF DotPositions(text) = {} THEN <<>>
  ELSE TrimTrailingZeros(SubSeq(text, (CHOOSE i \in DotPositions(text) : TRUE) + 1, Len(text)))

\* C19: parseAmount fails on a malformed decimal text and on a text with
\* more than 6 fractional digits; it never returns a rounded or truncated
\* integer for such a text.
C19_RejectsMalformedAndImprecise ==
  applied.done =>
    ((~WellFormedDecimal(applied.arg)
        \/ Len(SignificantFraction(applied.arg)) > PYUSD_DECIMALS)
       => applied.result[1].threw)

\* "1.0000005" is parsed as 1000001: the seventh digit is rounded away
C19_Diverges ==
  /\ applied.done
  /\ applied.arg = <<"1", ".", "0", "0", "0", "0", "0", "0", "5">>
  /\ applied.result = <<Returned(1000001)>>

\* what does hold: a text outside the pattern of parseUnits is refused, and a
\* text with at most 6 fractional digits is parsed exactly
C19_PatternAndExactness ==
  applied.done =>
    /\ ~IsDecimalNumber(applied.arg) => applied.result[1].threw
    /\ (IsDecimalNumber(applied.arg)
          /\ Len(SignificantFraction(applied.arg)) <= PYUSD_DECIMALS)
         => applied.result[1] = parseUnitsExact(applied.arg, PYUSD_DECIMALS)

\* C20: with a parsed amount <= 0 the command aborts before any remote read
\* and before any transaction is submitted.
C20_NonPositiveAmountAborts ==
  (args.sendParam # <<>> /\ args.amountLD <= 0) =>
    /\ pc = "failed"
    /\ trace = <<>>
    /\ calls = NoCalls
    /\ mined = <<>>

\* send ethereum arbitrum 0: the token and the balance are read, a quote is
\* requested and the transfer of 0 is submitted
C20_Diverges ==
  /\ args.sendParam # <<>>
  /\ args.amountLD = 0
  /\ Submitted("balanceOf")
  /\ Submitted("quoteSend")
  /\ Submitted("send")

\* ------------------------------------------- formatAmount and the round trips
\* the amounts 0, 1, ... units of 10^-6 are dense up to this one
MaxRoundTripUnits == 1200

DigitChar(d) ==
  CASE d = 0 -> "0" [] d = 1 -> "1" [] d = 2 -> "2" [] d = 3 -> "3" [] d = 4 -> "4"
    [] d = 5 -> "5" [] d = 6 -> "6" [] d = 7 -> "7" [] d = 8 -> "8" [] d = 9 -> "9"

\* bigint.toString() of a non-negative value
RECURSIVE ToStringOfNat(_)
ToStringOfNat(n) ==
  IF n < 10 THEN <<DigitChar(n)>>
  ELSE Append(ToStringOfNat(n \div 10), DigitChar(n % 10))

\* text.padStart(length, '0')
PadStart(text, length) ==
  IF Len(text) >= length THEN text ELSE [i \in 1..(length - Len(text)) |-> "0"] \o text

\* variant of formatUnits: the trailing zeros of the fraction are kept
formatUnitsFixed(value, decimals) ==
  LET negative == value < 0
      display == PadStart(ToStringOfNat(IF negative THEN -value ELSE value), decimals)
      integer == SubSeq(display, 1, Len(display) - decimals)
      fraction == SubSeq(display, Len(display) - decimals + 1, Len(display))
  IN  (IF negative THEN <<"-">> ELSE <<>>)
        \o (IF integer = <<>> THEN <<"0">> ELSE integer)
        \o (IF fraction = <<>> THEN <<>> ELSE <<".">> \o fraction)

\* viem formatUnits(value, decimals): the decimal digits of |value|, padded
\* to `decimals` digits, split `decimals` digits from the end; the fraction
\* loses its trailing zeros and an empty integer part is written "0"
formatUnits(value, decimals) ==
  LET negative == value < 0
      display == PadStart(ToStringOfNat(IF negative THEN -value ELSE value), decimals)
      integer == SubSeq(display, 1, Len(display) - decimals)
      fraction == TrimTrailingZeros(SubSeq(display, Len(display) - decimals + 1, Len(display)))
  IN  (IF negative THEN <<"-">> ELSE <<>>)
        \o (IF integer = <<>> THEN <<"0">> ELSE integer)
        \o (IF fraction = <<>> THEN <<>> ELSE <<".">> \o fraction)

\* format.ts:33-35
formatAmount(amount) == formatUnits(amount, PYUSD_DECIMALS)

\* the amounts handed to formatAmount
RoundTripUnits ==
  (0..MaxRoundTripUnits)
    \cup {99999, 100000, 999999, 1000000, 1000001, 1500000, 100000000, 123456789}

\* the texts handed to parseAmount: at most PYUSD_DECIMALS fractional digits
RoundTripTexts ==
  {sign \o integer \o <<".">> \o fraction :
     sign \in SignTexts, integer \in IntegerTexts \cup {<<"0", "0", "7">>},
     fraction \in UNION {[1..n -> {"0", "5", "9"}] : n \in 0..PYUSD_DECIMALS}}
    \cup {sign \o integer : sign \in SignTexts, integer \in IntegerTexts \cup {<<"0", "0", "7">>}}

InitRoundTrip ==
  /\ chain = NoChain
  /\ Idle
  /\ \/ \E n \in RoundTripUnits : applied = Applying("formatAmount", n)
     \/ \E text \in RoundTripTexts : applied = Applying("parseAmount", text)

formatAmount_call ==
  /\ applied.fn = "formatAmount"
  /\ ~applied.done
  /\ applied' = [applied EXCEPT !.result = <<formatAmount(applied.arg)>>, !.done = TRUE]
  /\ UNCHANGED <<chain, mined, pc, inv, args, loc, trace, calls, output, exit>>

\* parseAmount applied to the text formatAmount returned
parseAmount_ofFormatted ==
  /\ applied.fn = "formatAmount"
  /\ applied.done
  /\ applied' = [fn |-> "parseAmount(formatAmount)", arg |-> applied.arg,
                 result |-> <<parseAmount(applied.result[1])>>, done |-> TRUE]
  /\ UNCHANGED <<chain, mined, pc, inv, args, loc, trace, calls, output, exit>>

\* formatAmount applied to the bigint parseAmount returned
formatAmount_ofParsed ==
  /\ applied.fn = "parseAmount"
  /\ applied.done
  /\ ~applied.result[1].threw
  /\ applied' = [fn |-> "formatAmount(parseAmount)", arg |-> applied.arg,
                 result |-> <<formatAmount(applied.result[1].value)>>, done |-> TRUE]
  /\ UNCHANGED <<chain, mined, pc, inv, args, loc, trace, calls, output, exit>>

NextRoundTrip ==
  \/ formatAmount_call
  \/ parseAmount_ofFormatted
  \/ parseAmount_call
  \/ formatAmount_ofParsed

SpecRoundTrip == InitRoundTrip /\ [][NextRoundTrip]_vars

RECURSIVE StripLeadingZeroChars(_)
StripLeadingZeroChars(text) ==
  IF text # <<>> /\ text[1] = "0" THEN StripLeadingZeroChars(Tail(text)) ELSE text

\* the canonical form of a decimal text: no superfluous leading zeros, no
\* trailing fractional zeros, no dot without a fraction, no sign on zero
canonicalForm(text) ==
  LET negative == text # <<>> /\ text[1] = "-"
      unsigned == IF negative THEN Tail(text) ELSE text
      dots == DotPositions(unsigned)
      dot == IF dots = {} THEN Len(unsigned) + 1 ELSE CHOOSE i \in dots : TRUE
      integer == StripLeadingZeroChars(SubSeq(unsigned, 1, dot - 1))
      fraction == TrimTrailingZeros(SubSeq(unsigned, dot + 1, Len(unsigned)))
  IN  (IF negative /\ (integer # <<>> \/ fraction # <<>>) THEN <<"-">> ELSE <<>>)
        \o (IF integer = <<>> THEN <<"0">> ELSE integer)
        \o (IF fraction = <<>> THEN <<>> ELSE <<".">> \o fraction)

\* C21: parseAmount(formatAmount(n)) = n for every non-negative n, and
\* formatAmount(parseAmount(s)) is the canonical form of s for every valid
\* decimal text s with at most 6 fractional digits.
C21_AmountRoundTrip ==
  /\ (applied.fn = "parseAmount(formatAmount)" /\ applied.arg >= 0)
       => applied.result[1] = Returned(applied.arg)
  /\ (applied.fn = "formatAmount(parseAmount)" /\ WellFormedDecimal(applied.arg)
        /\ Len(SignificantFraction(applied.arg)) <= PYUSD_DECIMALS)
       => applied.result[1] = canonicalForm(applied.arg)

C21_Witness ==
  /\ applied.fn = "formatAmount(parseAmount)"
  /\ applied.arg = <<"0", "0", "7", ".", "5", "0">>
  /\ applied.result = << <<"7", ".", "5">> >>

C21_WitnessFormatted ==
  /\ applied.fn = "parseAmount(formatAmount)"
  /\ applied.arg = 1500000
  /\ applied.result = <<Returned(1500000)>>

\* -------------------------------------------------- the address conversions
\* the byte values 0..MaxByteValue and 255 appear in the generated addresses
MaxByteValue == 2

ByteInputs == (0..MaxByteValue) \cup {255}

\* byte strings of a length, one byte differing from the others
BytesOfLength(length) ==
  {[i \in 1..length |-> IF i = k THEN b ELSE c] :
     k \in 1..length, b \in ByteInputs, c \in ByteInputs}

AddressInputs == BytesOfLength(20)
Bytes32Inputs == BytesOfLength(32)

InitAddress ==
  /\ chain = NoChain
  /\ Idle
  /\ \/ \E address \in AddressInputs : applied = Applying("addressToBytes32", address)
     \/ \E bytes32 \in Bytes32Inputs : applied = Applying("bytes32ToAddress", bytes32)

addressToBytes32_call ==
  /\ applied.fn = "addressToBytes32"
  /\ ~applied.done
  /\ applied' = [applied EXCEPT !.result = <<addressToBytes32(applied.arg)>>, !.done = TRUE]
  /\ UNCHANGED <<chain, mined, pc, inv, args, loc, trace, calls, output, exit>>

\* bytes32ToAddress applied to the value addressToBytes32 returned
bytes32ToAddress_ofPadded ==
  /\ applied.fn = "addressToBytes32"
  /\ applied.done
  /\ applied' = [fn |-> "bytes32ToAddress(addressToBytes32)", arg |-> applied.arg,
                 result |-> <<bytes32ToAddress(applied.result[1])>>, done |-> TRUE]
  /\ UNCHANGED <<chain, mined, pc, inv, args, loc, trace, calls, output, exit>>

bytes32ToAddress_call ==
  /\ applied.fn = "bytes32ToAddress"
  /\ ~applied.done
  /\ applied' = [applied EXCEPT !.result = <<bytes32ToAddress(applied.arg)>>, !.done = TRUE]
  /\ UNCHANGED <<chain, mined, pc, inv, args, loc, trace, calls, output, exit>>

NextAddress ==
  \/ addressToBytes32_call
  \/ bytes32ToAddress_ofPadded
  \/ bytes32ToAddress_call

SpecAddress == InitAddress /\ [][NextAddress]_vars

IsBytes(value) == \A i \in 1..Len(value) : value[i] \in 0..255

\* C22: addressToBytes32(a) is 12 zero bytes followed by the 20 bytes of a,
\* and bytes32ToAddress(addressToBytes32(a)) = a.
C22_AddressRoundTrip ==
  /\ (applied.fn = "addressToBytes32" /\ applied.done) =>
       /\ Len(applied.result[1]) = 32
       /\ \A i \in 1..12 : applied.result[1][i] = 0
       /\ SubSeq(applied.result[1], 13, 32) = applied.arg
  /\ applied.fn = "bytes32ToAddress(addressToBytes32)" => applied.result[1] = applied.arg

C22_Witness ==
  /\ applied.fn = "bytes32ToAddress(addressToBytes32)"
  /\ applied.arg = [i \in 1..20 |-> IF i = 1 THEN 255 ELSE 1]
  /\ applied.result = <<applied.arg>>

\* C23: bytes32ToAddress fails for every 32-byte value whose leading 12
\* bytes are not all zero.
C23_RejectsNonZeroPrefix ==
  (applied.fn = "bytes32ToAddress" /\ applied.done
     /\ \E i \in 1..12 : applied.arg[i] # 0)
    => ~IsBytes(applied.result[1])

\* a value with a non-zero leading byte is cut to its last 20 bytes
C23_Diverges ==
  /\ applied.fn = "bytes32ToAddress"
  /\ applied.done
  /\ applied.arg = [i \in 1..32 |-> IF i = 1 THEN 255 ELSE 1]
  /\ applied.result = <<[i \in 1..20 |-> 1]>>

\* what does hold: the trailing 20 bytes are returned for every 32-byte value
C23_AlwaysTrailingBytes ==
  (applied.fn = "bytes32ToAddress" /\ applied.done)
    => applied.result[1] = SubSeq(applied.arg, 13, 32)

\* ------------------------------------------------------------ getChainConfig
\* A chain key is a text, a sequence of one-character strings.
Letters ==
  <<"a", "b", "c", "d", "e", "f", "g", "h", "i", "j", "k", "l", "m", "n", "o", "p", "q", "r", "s", "t", "u", "v", "w", "x", "y", "z">>
Capitals ==
  <<"A", "B", "C", "D", "E", "F", "G", "H", "I", "J", "K", "L", "M", "N", "O", "P", "Q", "R", "S", "T", "U", "V", "W", "X", "Y", "Z">>

\* String.prototype.toLowerCase on the letters A-Z
toLowerCase(text) ==
  [i \in 1..Len(text) |->
     IF \E k \in 1..26 : Capitals[k] = text[i]
       THEN Letters[CHOOSE k \in 1..26 : Capitals[k] = text[i]]
       ELSE text[i]]

toUpperCase(text) ==
  [i \in 1..Len(text) |->
     IF \E k \in 1..26 : Letters[k] = text[i]
       THEN Capitals[CHOOSE k \in 1..26 : Letters[k] = text[i]]
       ELSE text[i]]

\* chains.ts:99-141  the own keys of CHAIN_CONFIGS
ConfiguredChainKeys ==
  {<<"a", "r", "b", "i", "t", "r", "u", "m">>,
   <<"e", "t", "h", "e", "r", "e", "u", "m">>,
   <<"p", "o", "l", "y", "g", "o", "n">>}

\* CHAIN_CONFIGS is a plain object: a lookup by key also finds what it
\* inherits from Object.prototype
ObjectPrototypeKeys ==
  {<<"c", "o", "n", "s", "t", "r", "u", "c", "t", "o", "r">>,
   <<"_", "_", "p", "r", "o", "t", "o", "_", "_">>,
   <<"t", "o", "S", "t", "r", "i", "n", "g">>,
   <<"v", "a", "l", "u", "e", "O", "f">>,
   <<"h", "a", "s", "O", "w", "n", "P", "r", "o", "p", "e", "r", "t", "y">>}

\* CHAIN_CONFIGS[key]: <<>> is undefined
ChainConfigsLookup(key) ==
  IF key \in ConfiguredChainKeys THEN <<[chainKey |-> key, own |-> TRUE]>>
  ELSE IF key \in ObjectPrototypeKeys THEN <<[chainKey |-> key, own |-> FALSE]>>
  ELSE <<>>

\* the thrown Error('Chain "..." not supported ...')
ChainNotSupported == [threw |-> TRUE, config |-> <<>>]

\* chains.ts:70-78 (and 151-159)
getChainConfig(chainKey) ==
  LET config == ChainConfigsLookup(toLowerCase(chainKey))
  IN  IF config = <<>> THEN ChainNotSupported
      ELSE [threw |-> FALSE, config |-> config]

\* the words the chain keys are spelled from
ChainWords ==
  ConfiguredChainKeys \cup ObjectPrototypeKeys
    \cup {<<"s", "o", "l", "a", "n", "a">>, <<"a", "r", "b", "i", "t", "r", "u", "m", "-", "s", "e", "p", "o", "l", "i", "a">>, <<"e", "t", "h">>, <<>>}

\* a word with its letter at position k in capitals (k = 0: as it is)
CapitalAt(word, k) ==
  [i \in 1..Len(word) |-> IF i = k THEN toUpperCase(<<word[i]>>)[1] ELSE word[i]]

ChainKeyInputs ==
  {CapitalAt(word, k) : word \in ChainWords, k \in 0..8}
    \cup {toUpperCase(word) : word \in ChainWords}

InitChains ==
  /\ chain = NoChain
  /\ Idle
  /\ \E chainKey \in ChainKeyInputs : applied = Applying("getChainConfig", chainKey)

getChainConfig_call ==
  /\ applied.fn = "getChainConfig"
  /\ ~applied.done
  /\ applied' = [applied EXCEPT !.result = <<getChainConfig(applied.arg)>>, !.done = TRUE]
  /\ UNCHANGED <<chain, mined, pc, inv, args, loc, trace, calls, output, exit>>

NextChains == getChainConfig_call

SpecChains == InitChains /\ [][NextChains]_vars

\* C24: getChainConfig returns the configured entry for a key of the chain
\* table, compared after lower-casing, and raises an error for every other
\* key.
C24_UnknownChainRaises ==
  applied.done =>
    IF toLowerCase(applied.arg) \in ConfiguredChainKeys
      THEN applied.result[1] =
             [threw |-> FALSE, config |-> <<[chainKey |-> toLowerCase(applied.arg), own |-> TRUE]>>]
      ELSE applied.result[1].threw

\* the key "constructor" is no chain and yet nothing is thrown
C24_Diverges ==
  /\ applied.done
  /\ applied.arg = <<"c", "o", "n", "s", "t", "r", "u", "c", "t", "o", "r">>
  /\ ~applied.result[1].threw

\* what does hold: a configured key is found in any capitalisation, and a
\* key that is neither configured nor a property of Object.prototype throws
C24_ConfiguredAndForeignKeys ==
  applied.done =>
    /\ toLowerCase(applied.arg) \in ConfiguredChainKeys
         => (~applied.result[1].threw /\ applied.result[1].config[1].own)
    /\ toLowerCase(applied.arg) \notin ConfiguredChainKeys \cup ObjectPrototypeKeys
         => applied.result[1].threw

\* C25: getTokenAddress never raises: it returns what token() returned when
\* the read succeeds and the transfer contract's own address when the read
\* fails because the contract has no token().
C25_TokenAddressFallback ==
  /\ \A i \in Positions :
       trace[i].op = "token" =>
         /\ trace[i].outcome \in {"ok", "caught"}
         /\ ~chain.hasToken => trace[i].outcome = "caught"
         /\ i = Len(trace) => pc \notin {"failed", "done"}
  /\ loc.tokenAddress # <<>> =>
       /\ loc.tokenAddress[1] \in {PyusdToken, OftAddress}
       /\ trace[1].outcome = "ok" => loc.tokenAddress = <<PyusdToken>>
       /\ trace[1].outcome = "caught" => loc.tokenAddress = <<OftAddress>>
  /\ loc.caTokenAddress # <<>> =>
       (~chain.hasToken => loc.caTokenAddress = <<OftAddress>>)

C25_Witness ==
  /\ ~chain.hasToken
  /\ loc.tokenAddress = <<OftAddress>>
  /\ Submitted("balanceOf")

\* ------------------------------------------------------- the status command
\* most messages in one answer of the indexer
MaxMessages == 2

\* part_008:943  message.status.name
StatusNames == {"DELIVERED", "INFLIGHT", "CONFIRMING", "FAILED", "BLOCKED"}

\* a LayerZeroMessage, as far as the command reads it: the status name and
\* whether destination.tx is present
MessageInputs == [name : StatusNames, destinationTx : BOOLEAN]

\* the answers of the indexer: 200 with the messages of the transaction,
\* 404 for a hash it does not know, 500
ResponseInputs ==
  {[ok |-> TRUE, status |-> 200, messages |-> messages] :
     messages \in SeqsUpTo(MessageInputs, MaxMessages)}
    \cup {[ok |-> FALSE, status |-> status, messages |-> <<>>] : status \in {404, 500}}

\* part_008:951-954  the command is started with a transaction hash
Status_run ==
  /\ pc = "idle"
  /\ inv < MaxInvocations
  /\ inv' = inv + 1
  /\ pc' = "status_fetch"
  /\ exit' = "running"
  /\ args' = NoArgs
  /\ loc' = NoLocals
  /\ trace' = <<>>
  /\ calls' = NoCalls
  /\ output' = <<>>
  /\ UNCHANGED <<chain, mined, applied>>

\* part_008:955-963  await fetch(...); a response that is not ok is reported
\* on stderr and the process exits with code 1.  loc.result holds the response.
Status_fetch ==
  /\ pc = "status_fetch"
  /\ \/ \* the request itself is rejected: nothing catches it
        /\ trace' = Append(trace, Event("fetch", 1, "throw"))
        /\ pc' = "failed"
        /\ exit' = "error"
        /\ output' = <<"fetch failed">>
        /\ UNCHANGED loc
     \/ \E response \in ResponseInputs :
          /\ trace' = Append(trace, Event("fetch", 1, "ok"))
          /\ loc' = [loc EXCEPT !.result = <<response>>]
          /\ IF ~response.ok
               THEN /\ output' = <<"Transfer not found or still indexing">>
                    /\ exit' = "error"
                    /\ pc' = "failed"
               ELSE /\ pc' = "status_json"
                    /\ UNCHANGED <<output, exit>>
  /\ UNCHANGED <<chain, mined, inv, applied, args, calls>>

\* part_008:965-1005  data.messages[0] is displayed; with no message
\* message.status is a TypeError that nothing catches
Status_display ==
  /\ pc = "status_json"
  /\ LET data == loc.result[1]
     IN  IF data.messages = <<>>
           THEN /\ output' = <<"TypeError">>
                /\ exit' = "error"
                /\ pc' = "failed"
           ELSE LET message == data.messages[1]
                IN  /\ output' = <<"Cross-Chain Transfer Status", message.name, "Source",
                                    "Destination">>
                                    \o (IF message.destinationTx THEN <<>> ELSE <<"Pending...">>)
                    /\ exit' = "ok"
                    /\ pc' = "done"
  /\ UNCHANGED <<chain, mined, inv, applied, args, loc, trace, calls>>

InitStatus ==
  /\ chain = NoChain
  /\ Idle
  /\ applied = NotApplied

NextStatus ==
  \/ Status_run
  \/ Status_fetch
  \/ Status_display
  \/ ProcessExit

SpecStatus == InitStatus /\ [][NextStatus]_vars

\* the indexer does not know the transaction
UnknownToIndexer(response) == ~response.ok \/ response.messages = <<>>

\* C26: for a hash the indexer does not know (404, a response that is not
\* ok, or no messages) the status query gives the state UNKNOWN as an
\* ordinary result, without a retry and without ending in an error.
C26_UnknownIsOrdinaryResult ==
  (pc \in {"done", "failed"} /\ loc.result # <<>> /\ UnknownToIndexer(loc.result[1])) =>
    /\ exit = "ok"
    /\ Printed("UNKNOWN")
    /\ Len(trace) = 1

\* a 404 ends the process with exit code 1
C26_Diverges ==
  /\ pc = "failed"
  /\ exit = "error"
  /\ loc.result # <<>>
  /\ loc.result[1].status = 404
  /\ Printed("Transfer not found or still indexing")

\* what does hold: the indexer is asked once per run, and a known
\* transaction is displayed with the status name of its first message
C26_SingleRequest ==
  /\ Len(trace) <= 1
  /\ pc = "done" =>
       /\ ~UnknownToIndexer(loc.result[1])
       /\ Printed(loc.result[1].messages[1].name)
       /\ exit = "ok"

\* -------------------------------------------- receipts of the send command
\* a transaction of this invocation was mined with a successful status
MinedSuccessfully(kind) ==
  \E k \in 1..Len(mined) :
    mined[k].kind = kind /\ mined[k].status = "success" /\ mined[k].inv = inv

\* C27: checkAndApprove returns approved = true only if the approval was
\* mined with a successful status; so whenever the transfer is submitted for
\* a contract that requires approval, an allowance >= amount was observed or
\* made earlier in the same invocation.
C27_ApprovedOnlyIfMined ==
  /\ (loc.approvalResult # <<>> /\ loc.approvalResult[1].approved)
       => MinedSuccessfully("approve")
  /\ (calls.send # <<>> /\ chain.approvalRequired) =>
       \/ (loc.currentAllowance # <<>> /\ loc.currentAllowance[1] >= args.amountLD)
       \/ MinedSuccessfully("approve")

\* the approval is mined as reverted and the transfer is submitted all the same
C27_Diverges ==
  /\ chain.approvalRequired
  /\ loc.currentAllowance = <<0>>
  /\ args.amountLD = 1
  /\ \E k \in 1..Len(mined) :
       mined[k].kind = "approve" /\ mined[k].status = "reverted" /\ mined[k].inv = inv
  /\ ~MinedSuccessfully("approve")
  /\ loc.approvalResult # <<>>
  /\ loc.approvalResult[1].approved
  /\ calls.send # <<>>

\* C28: send returns a result, and the command prints 'Transaction sent!',
\* only when the receipt of the transfer has a successful status.
C28_SentOnlyIfSuccessful ==
  (loc.result # <<>> \/ Printed("Transaction sent!")) =>
    /\ loc.receipt # <<>>
    /\ loc.receipt[1].status = "success"

\* a transfer mined as reverted is printed as sent, with the empty guid
C28_Diverges ==
  /\ loc.receipt # <<>>
  /\ loc.receipt[1].status = "reverted"
  /\ loc.result # <<>>
  /\ loc.result[1].guid = "0x"
  /\ Printed("Transaction sent!")
  /\ exit = "ok"

\* C29: with --dry-run the send command submits no transaction of any kind,
\* neither the transfer nor an approval.
C29_DryRunSubmitsNothing ==
  args.dryRun =>
    /\ calls.approve = <<>>
    /\ calls.send = <<>>
    /\ \A k \in 1..Len(mined) : mined[k].inv # inv

\* a dry run with an allowance below the amount sets the unlimited allowance
C29_Diverges ==
  /\ args.dryRun
  /\ pc = "done"
  /\ Printed("Dry run complete")
  /\ calls.approve # <<>>
  /\ calls.approve[1].amount = maxApproval
  /\ MinedSuccessfully("approve")
  /\ chain.allowance = maxApproval

\* what does hold: without an approval requirement, or with an allowance
\* that covers the amount, a dry run submits nothing
C29_NothingWhenAllowed ==
  (args.dryRun /\ loc.approvalResult # <<>> /\ ~loc.approvalResult[1].approved) =>
    /\ calls.approve = <<>>
    /\ calls.send = <<>>
    /\ \A k \in 1..Len(mined) : mined[k].inv # inv

\* ------------------------------------------------------ the balance command
\* balance.ts:35-45: --address given, only PYUSD_PRIVATE_KEY set, or neither
AddressFlagInputs == {"address", "privateKey", "none"}

\* balance.ts:70-76  a rejection inside the try block ends the command
BalanceThrow(op) ==
  /\ trace' = Append(trace, Event(op, 1, "throw"))
  /\ pc' = "failed"
  /\ exit' = "error"
  /\ output' = Append(output, "Failed to fetch balance")

\* balance.ts:28-52
Balance_run(addressFlag) ==
  /\ pc = "idle"
  /\ inv < MaxInvocations
  /\ inv' = inv + 1
  /\ trace' = <<>>
  /\ calls' = NoCalls
  /\ loc' = NoLocals
  /\ args' = NoArgs
  /\ IF addressFlag = "none"
       THEN /\ pc' = "failed"
            /\ exit' = "error"
            /\ output' = <<"Either --address flag or PYUSD_PRIVATE_KEY environment variable is required">>
       ELSE /\ pc' = "balance_getTokenAddress"
            /\ exit' = "running"
            /\ output' = <<"Checking PYUSD balance">>
  /\ UNCHANGED <<chain, mined, applied>>

\* balance.ts:56
Balance_getTokenAddress ==
  /\ pc = "balance_getTokenAddress"
  /\ \E ok \in BOOLEAN :
       /\ loc' = [loc EXCEPT !.tokenAddress = <<getTokenAddress(ok)>>]
       /\ trace' = Append(trace, Event("token", 1, getTokenAddressOutcome(ok)))
  /\ pc' = "balance_getBalance"
  /\ UNCHANGED <<chain, mined, inv, applied, args, calls, output, exit>>

\* balance.ts:59-65
Balance_getBalance ==
  /\ pc = "balance_getBalance"
  /\ \/ /\ BalanceThrow("balanceOf")
        /\ UNCHANGED loc
     \/ /\ loc.tokenAddress[1] = ActualToken
        /\ trace' = Append(trace, Event("balanceOf", 1, "ok"))
        /\ loc' = [loc EXCEPT !.balance = <<chain.balance>>]
        /\ pc' = "done"
        /\ exit' = "ok"
        /\ output' = output \o <<"Address", "Chain", "Balance">>
  /\ UNCHANGED <<chain, mined, inv, applied, args, calls>>

\* the quote and the balance command, on any chain state
InitReadOnly ==
  /\ chain \in [approvalRequired : BOOLEAN, hasToken : BOOLEAN,
                 allowance : {0}, balance : 0..MaxAmount]
  /\ Idle
  /\ applied = NotApplied

NextReadOnly ==
  \/ \E amount \in QuoteAmountInputs, slippage \in SlippageFlagInputs,
        recipient \in RecipientInputs :
       Quote_run(amount, slippage, recipient)
  \/ Quote_quoteSend
  \/ Quote_quoteOFT
  \/ \E addressFlag \in AddressFlagInputs : Balance_run(addressFlag)
  \/ Balance_getTokenAddress
  \/ Balance_getBalance
  \/ ProcessExit

SpecReadOnly == InitReadOnly /\ [][NextReadOnly]_vars

\* C30: the quote and balance commands never submit an approval or a
\* transfer, on any path; quoteSend performs two reads, quoteSend then
\* quoteOFT, and the second is not performed when the first fails.
C30_ReadOnly ==
  /\ mined = <<>>
  /\ calls.approve = <<>>
  /\ calls.send = <<>>
  /\ Len(calls.quoteSend) <= 1
  /\ Len(calls.quoteOFT) <= 1
  /\ calls.quoteOFT # <<>> =>
       /\ Len(calls.quoteSend) = 1
       /\ trace # <<>>
       /\ trace[1] = Event("quoteSend", 1, "ok")
  /\ (\E i \in Positions : trace[i].op = "quoteSend" /\ trace[i].outcome = "throw") =>
       /\ calls.quoteOFT = <<>>
       /\ pc = "failed"
  /\ loc.quote # <<>> =>
       /\ Len(calls.quoteSend) = 1
       /\ Len(calls.quoteOFT) = 1
       /\ trace = <<Event("quoteSend", 1, "ok"), Event("quoteOFT", 1, "ok")>>

C30_Witness ==
  /\ pc = "done"
  /\ loc.quote # <<>>
  /\ Len(calls.quoteSend) = 1
  /\ Len(calls.quoteOFT) = 1

C30_WitnessFirstReadFails ==
  /\ pc = "failed"
  /\ Len(calls.quoteSend) = 1
  /\ calls.quoteOFT = <<>>
  /\ trace = <<Event("quoteSend", 1, "throw")>>

C30_WitnessBalance ==
  /\ pc = "done"
  /\ loc.balance = <<1>>
  /\ Printed("Balance")
====
